---- MODULE Spec2Model ----
(***************************************************************************)
(* Model of audio_conv_rnn.py: the AudioConvRNN builder.  One call of the  *)
(* builder is a sequence of steps, one per statement group of the source,  *)
(* split wherever the process-wide Keras configuration is read.  Tensor    *)
(* shapes exclude the batch axis, as the source's shape tuples do.         *)
(***************************************************************************)
EXTENDS Integers, Sequences, FiniteSets, TLC

VARIABLES
    image_dim_ordering, \* K.image_dim_ordering(): the process-wide layout flag
    backend,            \* K._BACKEND: the process-wide backend identifier
    cache,              \* file names present in the shared cache directory
    config0,            \* the configuration before the first call
    pc,                 \* position of the call in the source
    blk,                \* conv block being built (1..4)
    weights,            \* argument `weights`
    input_tensor,       \* argument `input_tensor`
    input_shape,        \* local of line 51/53
    melgram_input,      \* local of lines 56/59/61
    channel_axis,       \* locals of lines 65..71
    freq_axis,
    time_axis,
    x,                  \* shape of the tensor the local `x` is bound to
    padded,             \* the node the first layer (line 74) was applied to
    layers,             \* layer nodes created so far, in order
    inputLayers,        \* number of Input layers created by the call
    model,              \* local `model` of line 117
    weights_path,       \* local of lines 126/130
    events,             \* what the call has done so far, in order
    fetches,            \* the get_file calls of the call: <<fname, origin>>
    raised,             \* the exception the call ended with, or NoError
    returned,           \* the graph the call returned, or NoModel
    flips,              \* changes of the layout flag by others during the call
    built               \* of every graph returned so far: whether it has the
                        \* permutation node, and its layer parameters

vars == <<image_dim_ordering, backend, cache, config0, pc, blk, weights,
          input_tensor, input_shape, melgram_input, channel_axis, freq_axis,
          time_axis, x, padded, layers, inputLayers, model, weights_path,
          events, fetches, raised, returned, flips, built>>

config == <<image_dim_ordering, backend, cache, config0>>
args == <<weights, input_tensor>>
locals == <<input_shape, melgram_input, channel_axis, freq_axis, time_axis,
            x, padded, layers, inputLayers, model, weights_path>>

\* ---------------------------------------------------------------- bounds
\* How often another actor may change the layout flag during one call.
MaxFlips == 1

\* ------------------------------------------------------------- constants
TH_WEIGHTS_PATH == "https://github.com/keunwoochoi/music-auto_tagging-keras/blob/master/data/rnn_weights_theano.hdf5"
TF_WEIGHTS_PATH == "https://github.com/keunwoochoi/music-auto_tagging-keras/blob/master/data/rnn_weights_tensorflow.hdf5"

N_MEL == 96
N_FRAME == 1366
TIME_PAD == 37
N_STEP == 15
N_FEAT == 128
GRU_UNITS == 32
N_TAGS == 50

\* nb_filter of conv1..conv4, and the pool size (= stride) of pool1..pool4
Filters == <<64, 128, 128, 128>>
PoolSize == <<2, 3, 4, 4>>
\* Dropout rates in tenths: 0.5 after every conv block, 0.3 before the output
BlockDropout == 5
OutputDropout == 3

DimOrderings == {"th", "tf"}
Backends == {"theano", "tensorflow"}

\* ----------------------------------------------------------- the inputs
\* Python's None
None == "None"
\* Values a caller may pass as `weights`.  The last one is a list, which
\* Python cannot hash.
Unhashable == {"['msd']"}
WeightsValues == {"msd", None, "imagenet", "MSD"} \cup Unhashable

\* Values a caller may pass as `input_tensor`: nothing, a Keras tensor (the
\* output of layers.Input(), carrying its own shape) or a raw backend tensor.
\* A node is [kind, id, tensor, shape]: `tensor` is the backend tensor it is
\* bound to, `shape` its Keras shape (a raw tensor has none).
NoNode == [kind |-> "none", id |-> "none", tensor |-> "none", shape |-> <<>>]
NoTensor == NoNode
InputTensors ==
    { NoTensor,
      [kind |-> "keras", id |-> "caller_th", tensor |-> "caller_th",
       shape |-> <<1, N_MEL, N_FRAME>>],
      [kind |-> "keras", id |-> "caller_tf", tensor |-> "caller_tf",
       shape |-> <<N_MEL, N_FRAME, 1>>],
      [kind |-> "raw", id |-> "caller_raw", tensor |-> "caller_raw",
       shape |-> <<>>] }
\* K.is_keras_tensor
is_keras_tensor(t) == t.kind = "keras"
NoModel == [input |-> NoNode, output |-> <<>>, layers |-> <<>>, loaded |-> "none"]
NoError == "none"

\* ------------------------------------------------ framework layer shapes
\* A Keras 1 image layer reads a 3-axis shape as (channels, rows, cols) under
\* 'th' and as (rows, cols, channels) under 'tf'.
Chan(ord, s) == IF ord = "th" THEN s[1] ELSE s[3]
Rows(ord, s) == IF ord = "th" THEN s[2] ELSE s[1]
Cols(ord, s) == IF ord = "th" THEN s[3] ELSE s[2]
MkShape(ord, c, r, w) == IF ord = "th" THEN <<c, r, w>> ELSE <<r, w, c>>

\* ZeroPadding2D that pads one side only.
ZeroPadding2DOneSide(ord, pr, pcol, s) ==
    MkShape(ord, Chan(ord, s), Rows(ord, s) + pr, Cols(ord, s) + pcol)

\* ZeroPadding2D(padding=(pr, pc)): pr rows and pc columns on each side
ZeroPadding2D(ord, pr, pcol, s) ==
    MkShape(ord, Chan(ord, s), Rows(ord, s) + 2 * pr, Cols(ord, s) + 2 * pcol)

\* Convolution2D(nb_filter, 3, 3, border_mode='same')
Convolution2D(ord, nb_filter, s) ==
    MkShape(ord, nb_filter, Rows(ord, s), Cols(ord, s))

\* MaxPooling2D((p, p), strides=(p, p)), border_mode 'valid'
MaxPooling2D(ord, p, s) ==
    MkShape(ord, Chan(ord, s), Rows(ord, s) \div p, Cols(ord, s) \div p)

\* Permute(dims): output axis i is input axis dims[i]
Permute(dims, s) == [i \in 1..Len(dims) |-> s[dims[i]]]

RECURSIVE Size(_)
Size(s) == IF s = <<>> THEN 1 ELSE Head(s) * Size(Tail(s))

\* Reshape(target) accepts exactly the inputs with as many elements
ReshapeOk(target, s) == Size(s) = Size(target)

\* GRU(units, return_sequences) on a (steps, features) sequence
GRU(units, return_sequences, s) ==
    IF return_sequences THEN <<s[1], units>> ELSE <<units>>

\* Dense(units) on a feature vector
Dense(units, s) == <<units>>

\* A layer node: its class, name, main parameter, axis argument, the
\* dim_ordering it took from the configuration when it was created, one
\* option, and the shape of its output.
Layer(kind, name, arg, axis, ord, opt, out) ==
    [kind |-> kind, name |-> name, arg |-> arg, axis |-> axis, ord |-> ord,
     opt |-> opt, out |-> out]

\* The main parameters of the layers of class `kind`, in order
ArgsOf(kind, ls) ==
    LET sel == SelectSeq(ls, LAMBDA l : l.kind = kind)
    IN  [i \in 1..Len(sel) |-> sel[i].arg]

HasLayer(kind, ls) == \E i \in 1..Len(ls) : ls[i].kind = kind

LayerParams(ls) ==
    [filters |-> ArgsOf("Convolution2D", ls),
     pools |-> ArgsOf("MaxPooling2D", ls),
     dropouts |-> ArgsOf("Dropout", ls),
     grus |-> ArgsOf("GRU", ls),
     dense |-> ArgsOf("Dense", ls)]

\* ------------------------------------------------------------------ Init
Init ==
    /\ image_dim_ordering \in DimOrderings
    /\ backend \in Backends
    /\ cache = {}
    /\ config0 = <<image_dim_ordering, backend>>
    /\ pc = "idle"
    /\ blk = 1
    /\ weights = None
    /\ input_tensor = NoTensor
    /\ input_shape = <<>>
    /\ melgram_input = NoNode
    /\ channel_axis = 0
    /\ freq_axis = 0
    /\ time_axis = 0
    /\ x = <<>>
    /\ padded = NoNode
    /\ layers = <<>>
    /\ inputLayers = 0
    /\ model = NoModel
    /\ weights_path = "none"
    /\ events = <<>>
    /\ fetches = <<>>
    /\ raised = NoError
    /\ returned = NoModel
    /\ flips = 0
    /\ built = {}

\* --------------------------------------------------------------- actions
\* A caller invokes AudioConvRNN(weights, input_tensor): line 20.
Call ==
    /\ pc \in {"idle", "done"}
    /\ \E w \in WeightsValues, t \in InputTensors :
          /\ weights' = w
          /\ input_tensor' = t
    /\ pc' = "L44"
    /\ blk' = 1
    /\ input_shape' = <<>>
    /\ melgram_input' = NoNode
    /\ channel_axis' = 0
    /\ freq_axis' = 0
    /\ time_axis' = 0
    /\ x' = <<>>
    /\ padded' = NoNode
    /\ layers' = <<>>
    /\ inputLayers' = 0
    /\ model' = NoModel
    /\ weights_path' = "none"
    /\ events' = <<>>
    /\ fetches' = <<>>
    /\ raised' = NoError
    /\ returned' = NoModel
    /\ flips' = 0
    /\ UNCHANGED <<config, built>>

\* The call ends with exception e.
Raise(e) ==
    /\ raised' = e
    /\ pc' = "done"

\* Lines 44-47: `weights not in {'msd', None}`.  Membership in a set hashes
\* the value first, so an unhashable value raises TypeError.
CheckWeights ==
    /\ pc = "L44"
    /\ events' = Append(events, "validate")
    /\ IF weights \in Unhashable
          THEN Raise("TypeError")
          ELSE IF weights \notin {"msd", None}
                  THEN Raise("ValueError")
                  ELSE /\ pc' = "L50"
                       /\ raised' = raised
    /\ UNCHANGED <<config, args, locals, blk, fetches, returned, flips, built>>

\* The call goes on to position p without raising.
Goto(p) ==
    /\ pc' = p
    /\ raised' = raised

\* Lines 49-53: the input shape for the layout read at line 50.
InputShapeSwapped ==
    /\ pc = "L50"
    /\ input_shape' = IF image_dim_ordering = "th"
                         THEN <<N_MEL, N_FRAME, 1>>
                         ELSE <<1, N_MEL, N_FRAME>>
    /\ events' = Append(events, "build")
    /\ Goto("L55")
    /\ UNCHANGED <<config, args, blk, melgram_input, channel_axis, freq_axis,
                   time_axis, x, padded, layers, inputLayers, model,
                   weights_path, fetches, returned, flips, built>>

InputShape ==
    /\ pc = "L50"
    /\ input_shape' = IF image_dim_ordering = "th"
                         THEN <<1, N_MEL, N_FRAME>>
                         ELSE <<N_MEL, N_FRAME, 1>>
    /\ events' = Append(events, "build")
    /\ Goto("L55")
    /\ UNCHANGED <<config, args, blk, melgram_input, channel_axis, freq_axis,
                   time_axis, x, padded, layers, inputLayers, model,
                   weights_path, fetches, returned, flips, built>>

\* Input(shape=...) and Input(tensor=..., shape=...): a new input node, bound
\* to a fresh placeholder or to the given tensor, of the declared shape.
Input(tensor, shape) ==
    [kind |-> "InputLayer", id |-> "input_1", tensor |-> tensor, shape |-> shape]

\* Lines 55-61 with the is_keras_tensor test dropped: every handle is wrapped.
MakeInputAlwaysWraps ==
    /\ pc = "L55"
    /\ IF input_tensor = NoTensor
          THEN /\ melgram_input' = Input("placeholder", input_shape)
               /\ inputLayers' = inputLayers + 1
          ELSE /\ melgram_input' = Input(input_tensor.tensor, input_shape)
               /\ inputLayers' = inputLayers + 1
    /\ events' = Append(events, "build")
    /\ Goto("L64")
    /\ UNCHANGED <<config, args, blk, input_shape, channel_axis, freq_axis,
                   time_axis, x, padded, layers, model, weights_path, fetches,
                   returned, flips, built>>

\* Lines 55-61: the input node.
MakeInput ==
    /\ pc = "L55"
    /\ IF input_tensor = NoTensor
          THEN /\ melgram_input' = Input("placeholder", input_shape)
               /\ inputLayers' = inputLayers + 1
          ELSE IF ~is_keras_tensor(input_tensor)
                  THEN /\ melgram_input' = Input(input_tensor.tensor, input_shape)
                       /\ inputLayers' = inputLayers + 1
                  ELSE /\ melgram_input' = input_tensor
                       /\ inputLayers' = inputLayers
    /\ events' = Append(events, "build")
    /\ Goto("L64")
    /\ UNCHANGED <<config, args, blk, input_shape, channel_axis, freq_axis,
                   time_axis, x, padded, layers, model, weights_path, fetches,
                   returned, flips, built>>

\* Lines 63-71: the axis indices for the layout read at line 64.  Axis 0 is
\* the batch axis, so axis k is element k of a shape tuple.
InputAxes ==
    /\ pc = "L64"
    /\ IF image_dim_ordering = "th"
          THEN /\ channel_axis' = 1
               /\ freq_axis' = 2
               /\ time_axis' = 3
          ELSE /\ channel_axis' = 3
               /\ freq_axis' = 1
               /\ time_axis' = 2
    /\ events' = Append(events, "build")
    /\ Goto("L74")
    /\ UNCHANGED <<config, args, blk, input_shape, melgram_input, x, padded,
                   layers, inputLayers, model, weights_path, fetches, returned,
                   flips, built>>

\* Lines 73-75: ZeroPadding2D (which takes its dim_ordering from the
\* configuration) on the input node, then BatchNormalization on time_axis.
InputBlock ==
    /\ pc = "L74"
    /\ LET ord == image_dim_ordering
           p == ZeroPadding2D(ord, 0, TIME_PAD, melgram_input.shape)
       IN  /\ padded' = melgram_input
           /\ x' = p
           /\ layers' = layers \o
                 << Layer("ZeroPadding2D", "zeropadding2d_1", TIME_PAD, 0, ord, "", p),
                    Layer("BatchNormalization", "bn_0_freq", 0, time_axis, "", "", p) >>
    /\ blk' = 1
    /\ events' = Append(events, "build")
    /\ Goto("conv")
    /\ UNCHANGED <<config, args, input_shape, melgram_input, channel_axis,
                   freq_axis, time_axis, inputLayers, model, weights_path,
                   fetches, returned, flips, built>>

ConvName == <<"conv1", "conv2", "conv3", "conv4">>
BnName == <<"bn1", "bn2", "bn3", "bn4">>
PoolName == <<"pool1", "pool2", "pool3", "pool4">>
DropoutName == <<"dropout1", "dropout2", "dropout3", "dropout4">>

\* Conv with a first block whose width depends on the layout.
ConvLayoutDependent ==
    /\ pc = "conv"
    /\ LET ord == image_dim_ordering
           n == IF ord = "tf" /\ blk = 1 THEN GRU_UNITS ELSE Filters[blk]
           c == Convolution2D(ord, n, x)
       IN  /\ x' = c
           /\ layers' = layers \o
                 << Layer("Convolution2D", ConvName[blk], n, 0, ord, "same", c),
                    Layer("BatchNormalization", BnName[blk], 0, channel_axis, "", "mode=2", c),
                    Layer("ELU", "elu", 0, 0, "", "", c) >>
    /\ events' = Append(events, "build")
    /\ Goto("pool")
    /\ UNCHANGED <<config, args, blk, input_shape, melgram_input, channel_axis,
                   freq_axis, time_axis, padded, inputLayers, model,
                   weights_path, fetches, returned, flips, built>>

\* Lines 78-80, 85-87, 92-94, 99-101: Convolution2D (which takes its
\* dim_ordering from the configuration), BatchNormalization on channel_axis,
\* ELU, of conv block blk.
Conv ==
    /\ pc = "conv"
    /\ LET ord == image_dim_ordering
           c == Convolution2D(ord, Filters[blk], x)
       IN  /\ x' = c
           /\ layers' = layers \o
                 << Layer("Convolution2D", ConvName[blk], Filters[blk], 0, ord, "same", c),
                    Layer("BatchNormalization", BnName[blk], 0, channel_axis, "", "mode=2", c),
                    Layer("ELU", "elu", 0, 0, "", "", c) >>
    /\ events' = Append(events, "build")
    /\ Goto("pool")
    /\ UNCHANGED <<config, args, blk, input_shape, melgram_input, channel_axis,
                   freq_axis, time_axis, padded, inputLayers, model,
                   weights_path, fetches, returned, flips, built>>

\* Lines 81-82, 88-89, 95-96, 102-103: MaxPooling2D (which takes its
\* dim_ordering from the configuration) and Dropout of conv block blk.
Pool ==
    /\ pc = "pool"
    /\ LET ord == image_dim_ordering
           p == MaxPooling2D(ord, PoolSize[blk], x)
       IN  /\ x' = p
           /\ layers' = layers \o
                 << Layer("MaxPooling2D", PoolName[blk], PoolSize[blk], 0, ord, "", p),
                    Layer("Dropout", DropoutName[blk], BlockDropout, 0, "", "", p) >>
    /\ events' = Append(events, "build")
    /\ IF blk < Len(Filters)
          THEN /\ blk' = blk + 1
               /\ Goto("conv")
          ELSE /\ blk' = blk
               /\ Goto("L106")
    /\ UNCHANGED <<config, args, input_shape, melgram_input, channel_axis,
                   freq_axis, time_axis, padded, inputLayers, model,
                   weights_path, fetches, returned, flips, built>>

\* Lines 105-108: Permute((3, 1, 2)) under the layout read at line 106, then
\* Reshape((15, 128)), which the framework rejects when the element counts
\* differ.
Reshaping ==
    /\ pc = "L106"
    /\ LET permute == image_dim_ordering = "th"
           y == IF permute THEN Permute(<<3, 1, 2>>, x) ELSE x
           pl == IF permute
                    THEN << Layer("Permute", "permute_1", 0, 0, "", "(3, 1, 2)", y) >>
                    ELSE << >>
           r == <<N_STEP, N_FEAT>>
       IN  IF ReshapeOk(r, y)
              THEN /\ x' = r
                   /\ layers' = layers \o pl \o
                         << Layer("Reshape", "reshape_1", 0, 0, "", "(15, 128)", r) >>
                   /\ Goto("L111")
              ELSE /\ x' = y
                   /\ layers' = layers \o pl
                   /\ Raise("ShapeError")
    /\ events' = Append(events, "build")
    /\ UNCHANGED <<config, args, blk, input_shape, melgram_input, channel_axis,
                   freq_axis, time_axis, padded, inputLayers, model,
                   weights_path, fetches, returned, flips, built>>

\* Lines 110-114: two GRU layers, Dropout, the sigmoid Dense output.
RecurrentBlock ==
    /\ pc = "L111"
    /\ LET g1 == GRU(GRU_UNITS, TRUE, x)
           g2 == GRU(GRU_UNITS, FALSE, g1)
           d == Dense(N_TAGS, g2)
       IN  /\ x' = d
           /\ layers' = layers \o
                 << Layer("GRU", "gru1", GRU_UNITS, 0, "", "return_sequences=True", g1),
                    Layer("GRU", "gru2", GRU_UNITS, 0, "", "return_sequences=False", g2),
                    Layer("Dropout", "dropout_1", OutputDropout, 0, "", "", g2),
                    Layer("Dense", "output", N_TAGS, 0, "", "sigmoid", d) >>
    /\ events' = Append(events, "build")
    /\ Goto("L117")
    /\ UNCHANGED <<config, args, blk, input_shape, melgram_input, channel_axis,
                   freq_axis, time_axis, padded, inputLayers, model,
                   weights_path, fetches, returned, flips, built>>

\* The call returns graph m.
Return(m) ==
    /\ returned' = m
    /\ built' = built \cup {[permuted |-> HasLayer("Permute", m.layers),
                              params |-> LayerParams(m.layers)]}
    /\ pc' = "done"
    /\ raised' = raised

\* Model(melgram_input, x)
Model(input, output, ls) ==
    [input |-> input, output |-> output, layers |-> ls, loaded |-> "none"]

\* CreateModel without the early return of line 119.
CreateModelNoEarlyReturn ==
    /\ pc = "L117"
    /\ model' = Model(melgram_input, x, layers)
    /\ events' = Append(events, "model")
    /\ Goto("L122")
    /\ UNCHANGED <<returned, built>>
    /\ UNCHANGED <<config, args, blk, input_shape, melgram_input, channel_axis,
                   freq_axis, time_axis, x, padded, layers, inputLayers,
                   weights_path, fetches, flips>>

\* Lines 116-120: the graph object; returned at once when weights is None.
CreateModel ==
    /\ pc = "L117"
    /\ model' = Model(melgram_input, x, layers)
    /\ IF weights = None
          THEN /\ events' = events \o <<"model", "return">>
               /\ Return(model')
          ELSE /\ events' = Append(events, "model")
               /\ Goto("L122")
               /\ UNCHANGED <<returned, built>>
    /\ UNCHANGED <<config, args, blk, input_shape, melgram_input, channel_axis,
                   freq_axis, time_axis, x, padded, layers, inputLayers,
                   weights_path, fetches, flips>>

\* What line 122 compares with 'tf': the attribute K.image_dim_ordering, a
\* function object, since the source does not call it.
K_image_dim_ordering == "<function image_dim_ordering>"

\* LayoutCheck that forces the supported layout instead of testing it.
LayoutCheckSetsOrdering ==
    /\ pc = "L122"
    /\ events' = Append(events, "layout_check")
    /\ image_dim_ordering' = "th"
    /\ Goto("L125")
    /\ UNCHANGED <<backend, cache, config0, args, locals, blk, fetches,
                   returned, flips, built>>

\* Lines 121-124: the layout test before the weights are fetched.
LayoutCheck ==
    /\ pc = "L122"
    /\ events' = Append(events, "layout_check")
    /\ IF K_image_dim_ordering = "tf"
          THEN Raise("RuntimeError")
          ELSE Goto("L125")
    /\ UNCHANGED <<config, args, locals, blk, fetches, returned, flips, built>>

\* Lines 125-132 with the two branches swapped.
GetFileSwapped ==
    /\ pc = "L125"
    /\ LET fname == IF backend = "theano" THEN "rnn_weights_tensorflow.h5"
                                          ELSE "rnn_weights_theano.h5"
           origin == IF backend = "theano" THEN TF_WEIGHTS_PATH ELSE TH_WEIGHTS_PATH
       IN  /\ events' = Append(events, "get_file")
           /\ fetches' = Append(fetches, <<fname, origin>>)
           /\ \/ /\ fname \in cache
                 /\ cache' = cache
                 /\ weights_path' = fname
                 /\ Goto("L134")
              \/ /\ fname \notin cache
                 /\ \E ok \in BOOLEAN :
                       IF ok THEN /\ cache' = cache \cup {fname}
                                  /\ weights_path' = fname
                                  /\ Goto("L134")
                             ELSE /\ cache' = cache
                                  /\ weights_path' = weights_path
                                  /\ Raise("DownloadError")
    /\ UNCHANGED <<image_dim_ordering, backend, config0, args, blk, input_shape,
                   melgram_input, channel_axis, freq_axis, time_axis, x, padded,
                   layers, inputLayers, model, returned, flips, built>>

\* Lines 125-132: get_file(fname, origin, cache_subdir='models') for the
\* backend read at line 125.  get_file returns the cached file when there is
\* one; otherwise it downloads origin, which succeeds or raises.
GetFile ==
    /\ pc = "L125"
    /\ LET fname == IF backend = "theano" THEN "rnn_weights_theano.h5"
                                          ELSE "rnn_weights_tensorflow.h5"
           origin == IF backend = "theano" THEN TH_WEIGHTS_PATH ELSE TF_WEIGHTS_PATH
       IN  /\ events' = Append(events, "get_file")
           /\ fetches' = Append(fetches, <<fname, origin>>)
           /\ \/ /\ fname \in cache
                 /\ cache' = cache
                 /\ weights_path' = fname
                 /\ Goto("L134")
              \/ /\ fname \notin cache
                 /\ \E ok \in BOOLEAN :
                       IF ok THEN /\ cache' = cache \cup {fname}
                                  /\ weights_path' = fname
                                  /\ Goto("L134")
                             ELSE /\ cache' = cache
                                  /\ weights_path' = weights_path
                                  /\ Raise("DownloadError")
    /\ UNCHANGED <<image_dim_ordering, backend, config0, args, blk, input_shape,
                   melgram_input, channel_axis, freq_axis, time_axis, x, padded,
                   layers, inputLayers, model, returned, flips, built>>

\* Lines 134-135: model.load_weights(weights_path), which succeeds or raises,
\* then the return.
LoadWeights ==
    /\ pc = "L134"
    /\ \E ok \in BOOLEAN :
          IF ok THEN /\ model' = [model EXCEPT !.loaded = weights_path]
                     /\ events' = events \o <<"load_weights", "return">>
                     /\ Return(model')
                ELSE /\ model' = model
                     /\ events' = Append(events, "load_weights")
                     /\ Raise("LoadError")
                     /\ UNCHANGED <<returned, built>>
    /\ UNCHANGED <<config, args, blk, input_shape, melgram_input, channel_axis,
                   freq_axis, time_axis, x, padded, layers, inputLayers,
                   weights_path, fetches, flips>>

\* Another actor changes the process-wide layout flag (the framework's
\* set_image_dim_ordering): freely between calls, at most MaxFlips times
\* while a call is in progress.
SetImageDimOrdering ==
    /\ \E o \in DimOrderings \ {image_dim_ordering} : image_dim_ordering' = o
    /\ IF pc \in {"idle", "done"}
          THEN flips' = flips
          ELSE /\ flips < MaxFlips
               /\ flips' = flips + 1
    /\ UNCHANGED <<backend, cache, config0, pc, blk, args, locals, events,
                   fetches, raised, returned, built>>

Next ==
    \/ Call
    \/ CheckWeights
    \/ InputShape
    \/ MakeInput
    \/ InputAxes
    \/ InputBlock
    \/ Conv
    \/ Pool
    \/ Reshaping
    \/ RecurrentBlock
    \/ CreateModel
    \/ LayoutCheck
    \/ GetFile
    \/ LoadWeights

NextConc == Next \/ SetImageDimOrdering

\* The builder alone: the configuration is what it was at start-up.
Spec == Init /\ [][Next]_vars

\* The builder with another actor changing the layout flag.
SpecConc == Init /\ [][NextConc]_vars
\* ================================================================ claims
Done == pc = "done"
Returned == returned # NoModel
SpecShape(ord) == IF ord = "th" THEN <<1, 96, 1366>> ELSE <<96, 1366, 1>>

\* Supporting fact for C1: a call that ends in the argument check, with
\* either error, has created no input, no layer, no graph and fetched nothing.
RejectedCallBuildsNothing ==
    (Done /\ weights \notin {"msd", None}) =>
        /\ raised \in {"ValueError", "TypeError"}
        /\ layers = <<>> /\ melgram_input = NoNode /\ inputLayers = 0
        /\ fetches = <<>> /\ model = NoModel /\ ~Returned

\* C1: for every value of `weights` other than 'msd' and None the call fails
\* with ValueError, before any input or layer node is created and before any
\* fetch, and no graph is constructed or returned.
C1_InvalidWeightsRaiseValueError ==
    (Done /\ weights \notin {"msd", None}) =>
        /\ raised = "ValueError"
        /\ layers = <<>> /\ melgram_input = NoNode /\ inputLayers = 0
        /\ fetches = <<>> /\ model = NoModel /\ ~Returned

\* C2: with weights 'msd' under the 'tf' layout the call raises the
\* incompatible-configuration error (RuntimeError) once the graph is built,
\* never reaches get_file or the weight load, and returns no graph.
C2_PretrainedUnderTfRaises ==
    (weights = "msd" /\ image_dim_ordering = "tf") =>
        /\ fetches = <<>>
        /\ model.loaded = "none"
        /\ ~Returned
        /\ (Done /\ model # NoModel) => raised = "RuntimeError"

\* C3: with weights None and no input_tensor the returned graph's input shape
\* is (1, 96, 1366) under 'th' and (96, 1366, 1) under 'tf', and its output is
\* a 50-element vector, under both layouts.
C3_RandomInitShapes ==
    (Done /\ weights = None /\ input_tensor = NoTensor) =>
        /\ Returned
        /\ returned.input.shape = SpecShape(image_dim_ordering)
        /\ returned.output = <<50>>

C3_Witness ==
    /\ Done /\ weights = None /\ input_tensor = NoTensor /\ Returned
    /\ image_dim_ordering = "tf"
    /\ returned.input.shape = <<96, 1366, 1>>

\* C4: with weights 'msd' under the 'th' layout exactly one get_file call is
\* made, whose file name and URL are chosen by the backend alone (the Theano
\* pair for 'theano', the TensorFlow pair otherwise); the fetched file is
\* loaded into the graph, and the returned graph ends in the 50-output
\* sigmoid Dense layer.
C4_BackendFetch ==
    LET want == IF backend = "theano"
                   THEN <<"rnn_weights_theano.h5",
                          "https://github.com/keunwoochoi/music-auto_tagging-keras/blob/master/data/rnn_weights_theano.hdf5">>
                   ELSE <<"rnn_weights_tensorflow.h5",
                          "https://github.com/keunwoochoi/music-auto_tagging-keras/blob/master/data/rnn_weights_tensorflow.hdf5">>
    IN  (weights = "msd" /\ image_dim_ordering = "th") =>
            /\ Len(fetches) <= 1
            /\ \A i \in 1..Len(fetches) : fetches[i] = want
            /\ (Done /\ Returned) =>
                  /\ Len(fetches) = 1
                  /\ returned.loaded = want[1]
                  /\ returned.output = <<50>>
                  /\ LET last == returned.layers[Len(returned.layers)]
                     IN  /\ last.kind = "Dense"
                         /\ last.arg = 50
                         /\ last.opt = "sigmoid"

C4_Witness ==
    /\ Done /\ weights = "msd" /\ image_dim_ordering = "th" /\ Returned
    /\ backend = "tensorflow"
    /\ returned.loaded = "rnn_weights_tensorflow.h5"

\* C5: the input node is a fresh placeholder of the layout's InputSpec shape
\* when input_tensor is absent, the caller's tensor itself (no Input layer
\* created) when it is a Keras tensor, and a new Input node bound to the
\* caller's tensor when it is a raw tensor; the returned graph's input is the
\* node the padding layer was applied to.
C5_InputNode ==
    /\ melgram_input # NoNode =>
          /\ input_tensor = NoTensor =>
                /\ melgram_input.kind = "InputLayer"
                /\ melgram_input.tensor = "placeholder"
                /\ melgram_input.shape = SpecShape(image_dim_ordering)
                /\ inputLayers = 1
          /\ input_tensor.kind = "keras" =>
                /\ melgram_input = input_tensor
                /\ inputLayers = 0
          /\ input_tensor.kind = "raw" =>
                /\ melgram_input.kind = "InputLayer"
                /\ melgram_input.tensor = input_tensor.tensor
                /\ inputLayers = 1
    /\ Returned =>
          /\ returned.input = melgram_input
          /\ returned.input = padded
          /\ returned.layers[1].kind = "ZeroPadding2D"

C5_Witness ==
    /\ Done /\ Returned /\ input_tensor.kind = "keras"
    /\ returned.input.id = input_tensor.id
    /\ inputLayers = 0

\* C6: all successful builds, whatever their layout, weights or input_tensor,
\* have the same ordered layer parameters: filters 64, 128, 128, 128; pooling
\* 2, 3, 4, 4; dropout 0.5, 0.5, 0.5, 0.5, 0.3 (in tenths); GRU widths 32, 32;
\* Dense width 50.
C6_SameParameters ==
    \A b \in built :
        b.params = [filters |-> <<64, 128, 128, 128>>,
                    pools |-> <<2, 3, 4, 4>>,
                    dropouts |-> <<5, 5, 5, 5, 3>>,
                    grus |-> <<32, 32>>,
                    dense |-> <<50>>]

\* Two graphs have been returned, one with and one without the permutation.
C6_Witness ==
    \E a, b \in built : a.permuted /\ ~b.permuted

\* C7: after any sequence of calls, successful or failing, the layout flag
\* and the backend identifier have the values they had before the first call.
C7_ConfigNeverWritten ==
    <<image_dim_ordering, backend>> = config0

\* A failed pretrained call after a successful build.
C7_Witness ==
    /\ Done /\ raised = "LoadError" /\ built # {}
    /\ <<image_dim_ordering, backend>> = config0
\* C8: from the InputSpec shape, under both layouts, padding takes time from
\* 1366 to 1440 and leaves frequency at 96; the convolutions keep frequency
\* and time and the poolings divide them (rounding down) by 2, 3, 4, 4, giving
\* frequency 96, 48, 16, 4, 1 and time 1440, 720, 240, 60, 15 with 128
\* channels at the end; the map reaching the reshape is (time 15, channel 128,
\* frequency 1) after the permutation under 'th' and (frequency 1, time 15,
\* channel 128) under 'tf', holds 1920 elements, and reshapes to (15, 128).
C8_ShapeChain ==
    LET th == image_dim_ordering = "th"
        C(s) == IF th THEN s[1] ELSE s[3]
        F(s) == IF th THEN s[2] ELSE s[1]
        T(s) == IF th THEN s[3] ELSE s[2]
        freq == <<96, 48, 16, 4, 1>>
        time == <<1440, 720, 240, 60, 15>>
        chan == <<64, 128, 128, 128>>
        Block(names, n) == CHOOSE k \in 1..4 : names[k] = n
    IN  (melgram_input # NoNode /\ melgram_input.shape = SpecShape(image_dim_ordering)) =>
            /\ raised # "ShapeError"
            /\ \A i \in 1..Len(layers) :
                  LET l == layers[i] IN
                  /\ l.kind = "ZeroPadding2D" =>
                        F(l.out) = 96 /\ T(l.out) = 1440 /\ C(l.out) = 1
                  /\ l.kind = "Convolution2D" =>
                        LET k == Block(ConvName, l.name) IN
                        F(l.out) = freq[k] /\ T(l.out) = time[k] /\ C(l.out) = chan[k]
                  /\ l.kind = "MaxPooling2D" =>
                        LET k == Block(PoolName, l.name) IN
                        F(l.out) = freq[k + 1] /\ T(l.out) = time[k + 1] /\ C(l.out) = chan[k]
                  /\ l.kind = "Permute" => th /\ l.out = <<15, 128, 1>>
                  /\ l.kind = "Reshape" =>
                        /\ l.out = <<15, 128>>
                        /\ layers[i - 1].out = IF th THEN <<15, 128, 1>> ELSE <<1, 15, 128>>
                        /\ layers[i - 1].kind = IF th THEN "Permute" ELSE "Dropout"
                        /\ Size(layers[i - 1].out) = 1920
            /\ pc \in {"L111", "L117", "L122", "L125", "L134"} => HasLayer("Reshape", layers)

\* The reshape has been done under 'th' from the InputSpec shape.
C8_Witness ==
    /\ pc = "L111" /\ image_dim_ordering = "th"
    /\ melgram_input.shape = <<1, 96, 1366>>
    /\ x = <<15, 128>>
    /\ HasLayer("Permute", layers)

\* C9: the events of a call are in the order validation, construction, graph
\* object, then (only for weights 'msd') layout check, at most one fetch,
\* weight load, return.  A call with weights None returns the graph without
\* layout check, fetch or load; no call fetches more than once.
C9_EventOrder ==
    LET Rank(e) == CASE e = "validate" -> 1
                     [] e = "build" -> 2
                     [] e = "model" -> 3
                     [] e = "layout_check" -> 4
                     [] e = "get_file" -> 5
                     [] e = "load_weights" -> 6
                     [] e = "return" -> 7
        Has(e) == \E i \in 1..Len(events) : events[i] = e
        Count(e) == Cardinality({i \in 1..Len(events) : events[i] = e})
    IN  /\ \A i, j \in 1..Len(events) :
              i < j => \/ Rank(events[i]) < Rank(events[j])
                       \/ events[i] = "build" /\ events[j] = "build"
        /\ events # <<>> => events[1] = "validate"
        /\ Has("model") =>
              /\ model # NoModel
              /\ model.layers = layers
              /\ layers[Len(layers)].name = "output"
        /\ Has("layout_check") => Has("model") /\ weights = "msd"
        /\ Has("get_file") => Has("layout_check")
        /\ Has("load_weights") => Has("get_file")
        /\ Count("get_file") = Len(fetches) /\ Len(fetches) <= 1
        /\ Returned <=> Has("return")
        /\ Returned =>
              /\ Has("model")
              /\ weights = "msd" => Has("load_weights")
        /\ weights = None =>
              /\ ~Has("layout_check") /\ ~Has("get_file") /\ ~Has("load_weights")
              /\ fetches = <<>> /\ model.loaded = "none"
              /\ Has("model") => Returned

\* A pretrained call has run through all its events.
C9_Witness ==
    /\ Done /\ weights = "msd" /\ Returned
    /\ Len(events) >= 5
    /\ SubSeq(events, Len(events) - 4, Len(events)) =
          <<"model", "layout_check", "get_file", "load_weights", "return">>

\* The layout each of the three decisions of a call was taken under.
ShapeLayout == IF input_shape = <<1, 96, 1366>> THEN "th" ELSE "tf"
AxesLayout == IF channel_axis = 1 THEN "th" ELSE "tf"
PermuteLayout == IF HasLayer("Permute", layers) THEN "th" ELSE "tf"

\* C10: a returned graph takes its input shape ordering, its axis indices and
\* its permutation decision from one and the same layout value, even when
\* another actor changes the layout flag during the call.
C10_OneLayoutPerCall ==
    Returned => /\ ShapeLayout = AxesLayout
                /\ AxesLayout = PermuteLayout
====
